---- MODULE Spec2Model ----
(***************************************************************************)
(* The rate limiter of linkedin-automation (package ratelimit): one        *)
(* RateLimiter guarded by one mutex, its callers (WaitForPermission,       *)
(* GetStats), the daily reset goroutine started by NewRateLimiter and the  *)
(* hourly reset goroutines started by updateTracking.                      *)
(*                                                                         *)
(* Time is a whole number of milliseconds since NewRateLimiter returned,    *)
(* and a time.Duration is a whole number of milliseconds.  The code under  *)
(* the mutex takes no time; only time.After and time.Sleep let time pass.  *)
(* A                                                                       *)
(* goroutine that can run does so before the clock moves.  A select that   *)
(* is blocked takes the case that becomes ready first.                     *)
(*                                                                         *)
(* Spec is the limiter with its callers, LiveSpec the same with the        *)
(* fairness of the scheduler, StatsSpec the same with a reporter that      *)
(* calls GetStats.  GateSpec is the schedule gate of the StealthManager    *)
(* (package stealth: ShouldTakeBreak, TakeBreak), ScrollSpec one call of   *)
(* its HumanLikeScroll, DelaySpec one call of RandomDelay, IdleSpec one    *)
(* call of AddIdleMovement and PathSpec one call of generateBezierPath or  *)
(* generateLinearPath.  LoginSpec is one call of Login of the AuthManager  *)
(* (package auth).                                                         *)
(***************************************************************************)
EXTENDS Integers, Sequences, FiniteSets, TLC

\* ------------------------------------------------------------------ bounds
MaxCalls == 3        \* WaitForPermission calls in one behaviour
MaxTime == 3606      \* the clock stops after this many seconds
JitterGrain == 2     \* rand.Float64() draws k / (2 * JitterGrain), k < 2 * JitterGrain
MaxGateTime == 30    \* the clock of the schedule gate stops after this many seconds
MaxBreaks == 2       \* TakeBreak calls in one behaviour
MaxScroll == 11      \* HumanLikeScroll is asked for at most this much, up or down
MaxHalfMs == 8       \* MinDelay and MaxDelay of RandomDelay: at most this many half ms

\* --------------------------------------------------------- program constants
\* Time is counted in milliseconds: a time.Time is the number of milliseconds
\* since the construction of the limiter, a time.Duration a number of
\* milliseconds.  The configurations below are whole seconds and a draw of
\* rand.Float64() is a multiple of 1 / (2 * JitterGrain), so that with
\* JitterGrain = 2 every delay the limiter and the gate compute is a whole
\* number of milliseconds, as it is a whole number of nanoseconds in the code.
Second == 1000       \* time.Second
Hour == 3600 * Second  \* time.Hour
Day == 24 * Hour     \* one calendar day (time.Date(..., now.Day()+1, ...))

ActionSearch == "search"
ActionConnect == "connect"
ActionMessage == "message"
ActionBrowse == "browse"
ActionType == {ActionSearch, ActionConnect, ActionMessage, ActionBrowse}

\* The zero time.Time (lastAction.IsZero()) and "nobody holds the mutex".
ZeroTime == -1
Nobody == "nobody"

\* error values returned by WaitForPermission
Nil == "nil"
ErrDaily == "daily limit exceeded"
ErrHourly == "hourly limit exceeded"
ErrBurst == "burst limit exceeded"
ErrCanceled == "context canceled"

\* The goroutines that call WaitForPermission.
Callers == {"c1", "c2"}

VARIABLES
    now,             \* the clock
    config,          \* rl.config
    env,             \* the environment: time to the first midnight, the calls made
    lastActionTime,  \* rl.lastActionTime
    actionCounts,    \* rl.actionCounts
    dailyCounts,     \* rl.dailyCounts
    dailyResetTime,  \* rl.dailyResetTime
    mu,              \* rl.mu: who holds it
    pc,              \* per caller: "idle", "lock" (blocked in rl.mu.Lock), "select"
    call,            \* per caller: the call in flight
    ctxDone,         \* per caller: ctx.Done() is closed
    hourlyTasks,     \* the hourlyReset goroutines asleep or blocked on the mutex
    dailyWake,       \* when the dailyReset goroutine's time.Sleep ends
    stats,           \* what the last GetStats returned
    log,             \* history: the WaitForPermission calls that returned
    zeroed,          \* history: the hourly zeroings, [action, at]
    gate,            \* the schedule gate: the caller's lastBreak, a TakeBreak in progress
    breaks,          \* history: the TakeBreak calls that returned
    scroll,          \* a HumanLikeScroll call: its arguments, its locals, the page
    timing,          \* a RandomDelay call: the timing configuration, the result
    idle,            \* an AddIdleMovement call: configuration, viewport, the move
    path,            \* a mouse path generation: the end points, the points made
    login            \* a Login call: the page the browser is on, the result

vars == <<now, config, env, lastActionTime, actionCounts, dailyCounts,
          dailyResetTime, mu, pc, call, ctxDone, hourlyTasks, dailyWake, stats,
          log, zeroed, gate, breaks, scroll, timing, idle, path, login>>

ledger == <<lastActionTime, actionCounts, dailyCounts>>

\* The state of the RateLimiter and its callers, but for the clock.
limiter == <<config, env, lastActionTime, actionCounts, dailyCounts,
             dailyResetTime, mu, pc, call, ctxDone, hourlyTasks, dailyWake,
             stats, log, zeroed>>

\* The calls of the helpers that keep no state between calls (RandomDelay,
\* AddIdleMovement, the mouse paths) and of Login.
helpers == <<timing, idle, path, login>>

\* The state of the callers of the StealthManager and of the AuthManager.
stealth == <<gate, breaks, scroll, timing, idle, path, login>>

\* ------------------------------------------------------------- configuration
\* Config (part_003:25-52) with the fields the limiter reads.  The durations
\* are given in seconds, JitterPercent is a whole percentage.
MkConfig(minDelay, typeDelay, daily, hourly, burstLimit, burstWindow, randomize, jitter) ==
    [MinDelay |-> minDelay * Second,
     SearchDelay |-> typeDelay * Second, ConnectDelay |-> typeDelay * Second,
     MessageDelay |-> typeDelay * Second,
     DailySearches |-> daily, DailyConnects |-> daily, DailyMessages |-> daily,
     HourlySearches |-> hourly, HourlyConnects |-> hourly, HourlyMessages |-> hourly,
     BurstLimit |-> burstLimit, BurstWindow |-> burstWindow * Second,
     RandomizeDelay |-> randomize, JitterPercent |-> jitter]

\* ---------------------------------------------------------- pure functions
\* getNextMidnight (part_003:308-312) evaluated at time t: the first local
\* midnight strictly after t.
getNextMidnight(t) ==
    IF t < env.firstMidnight THEN env.firstMidnight
    ELSE env.firstMidnight + (((t - env.firstMidnight) \div Day) + 1) * Day

\* The action types with a daily and an hourly limit; the switches of
\* checkDailyLimits and checkHourlyLimits return nil for the others.
Limited == {ActionSearch, ActionConnect, ActionMessage}

dailyLimit(action) ==
    CASE action = ActionSearch -> config.DailySearches
      [] action = ActionConnect -> config.DailyConnects
      [] action = ActionMessage -> config.DailyMessages

hourlyLimit(action) ==
    CASE action = ActionSearch -> config.HourlySearches
      [] action = ActionConnect -> config.HourlyConnects
      [] action = ActionMessage -> config.HourlyMessages

\* Faulty variant of checkDailyLimits: the comparison is strict.
checkDailyLimitsStrict(action) ==
    IF action \notin Limited THEN Nil
    ELSE LET current == dailyCounts[action]
         IN IF dailyLimit(action) > 0 /\ current > dailyLimit(action)
            THEN ErrDaily ELSE Nil

checkDailyLimits(action) ==
    IF action \notin Limited THEN Nil
    ELSE LET current == dailyCounts[action]
         IN IF dailyLimit(action) > 0 /\ current >= dailyLimit(action)
            THEN ErrDaily ELSE Nil

checkHourlyLimits(action) ==
    IF action \notin Limited THEN Nil
    ELSE LET current == actionCounts[action]
         IN IF hourlyLimit(action) > 0 /\ current >= hourlyLimit(action)
            THEN ErrHourly ELSE Nil

\* Faulty variant of checkBurstProtection: the count comparison is strict.
checkBurstProtectionStrict(action) ==
    IF config.BurstLimit <= 0 THEN Nil
    ELSE LET lastAction == lastActionTime[action]
             timeSinceLast == now - lastAction
         IN IF /\ lastAction # ZeroTime
               /\ timeSinceLast < config.BurstWindow
               /\ actionCounts[action] > config.BurstLimit
            THEN ErrBurst ELSE Nil

checkBurstProtection(action) ==
    IF config.BurstLimit <= 0 THEN Nil
    ELSE LET lastAction == lastActionTime[action]
             timeSinceLast == now - lastAction
         IN IF /\ lastAction # ZeroTime
               /\ timeSinceLast < config.BurstWindow
               /\ actionCounts[action] >= config.BurstLimit
            THEN ErrBurst ELSE Nil

\* Faulty variant of Checks: the checks run in the opposite order.
ChecksBurstFirst(action) ==
    IF checkBurstProtection(action) # Nil THEN checkBurstProtection(action)
    ELSE IF checkHourlyLimits(action) # Nil THEN checkHourlyLimits(action)
    ELSE checkDailyLimits(action)

\* The three checks in the order WaitForPermission runs them (part_003:86-99).
Checks(action) ==
    IF checkDailyLimits(action) # Nil THEN checkDailyLimits(action)
    ELSE IF checkHourlyLimits(action) # Nil THEN checkHourlyLimits(action)
    ELSE checkBurstProtection(action)

\* requiredDelay of calculateDelay (part_003:219-235)
requiredDelay(action) ==
    LET specific == CASE action = ActionSearch -> config.SearchDelay
                      [] action = ActionConnect -> config.ConnectDelay
                      [] action = ActionMessage -> config.MessageDelay
                      [] OTHER -> config.MinDelay
    IN IF config.MinDelay > specific THEN config.MinDelay ELSE specific

\* Faulty variant of calculateDelay: the time since the last action is not
\* taken off the required delay.
calculateDelayFull(action) ==
    LET lastAction == lastActionTime[action]
        timeSinceLast == now - lastAction
    IN IF lastAction = ZeroTime THEN 0
       ELSE IF timeSinceLast >= requiredDelay(action) THEN 0
       ELSE requiredDelay(action)

calculateDelay(action) ==
    LET lastAction == lastActionTime[action]
        timeSinceLast == now - lastAction
    IN IF lastAction = ZeroTime THEN 0
       ELSE IF timeSinceLast >= requiredDelay(action) THEN 0
       ELSE requiredDelay(action) - timeSinceLast

\* The draws of rand.Float64(): k / (2 * JitterGrain) in [0, 1).
FloatDraws == 0 .. (2 * JitterGrain - 1)

\* Faulty variant of addJitter: the jitter is twice JitterPercent of the delay.
addJitterWide(delay, k) ==
    IF config.JitterPercent <= 0 THEN delay
    ELSE LET scaled == delay * 100 * JitterGrain
                         + (k - JitterGrain) * delay * 2 * config.JitterPercent
         IN IF scaled < 0 THEN 0 ELSE scaled \div (100 * JitterGrain)

\* addJitter (part_003:246-261) on the draw k:
\*   jitter = delay * JitterPercent / 100; randomJitter = (k/(2G) * 2 - 1) * jitter;
\*   newDelay = delay + randomJitter, 0 if negative, truncated by time.Duration()
\*   to a whole number of the unit of time.
addJitter(delay, k) ==
    IF config.JitterPercent <= 0 THEN delay
    ELSE LET scaled == delay * 100 * JitterGrain
                         + (k - JitterGrain) * delay * config.JitterPercent
         IN IF scaled < 0 THEN 0 ELSE scaled \div (100 * JitterGrain)

\* delay as WaitForPermission computes it (part_003:101-107)
Delay(action, k) ==
    IF config.RandomizeDelay THEN addJitter(calculateDelay(action), k)
    ELSE calculateDelay(action)

\* The ledger: the three maps of the RateLimiter (part_003:17-19).
Ledger == [last |-> lastActionTime, hourly |-> actionCounts, daily |-> dailyCounts]

\* ------------------------------------------------------------------ inputs
\* The configurations the limiter is constructed with.
DailyOnly == MkConfig(0, 0, 2, 0, 0, 0, FALSE, 0)
Paced == [MkConfig(5, 10, 3, 2, 0, 0, TRUE, 20) EXCEPT !.SearchDelay = 1 * Second,
                                                        !.MessageDelay = 20 * Second]
Bursty == MkConfig(0, 0, 0, 3, 2, 30, TRUE, 20)
Scenario == MkConfig(0, 0, 2, 5, 1, 30, FALSE, 0)
Quotas == MkConfig(0, 0, 2, 2, 2, 30, FALSE, 0)

\* One run of the program: the configuration, the time from construction to
\* the first local midnight, the action types the callers ask for and the
\* number of WaitForPermission calls they make.  The paced runs are three
\* calls, each with its own draw of the jitter.
Setup(cfg, first, asked, calls) ==
    [config |-> cfg, firstMidnight |-> first, asked |-> asked, calls |-> calls]
Setups ==
    {Setup(DailyOnly, 40 * Second, {ActionConnect}, MaxCalls),
     Setup(Paced, Day, {ActionConnect, ActionBrowse}, 3),
     Setup(Bursty, Day, {ActionConnect}, MaxCalls + 1),
     Setup(Scenario, 40 * Second, {ActionConnect}, MaxCalls + 1),
     Setup(Quotas, 40 * Second, {ActionConnect}, MaxCalls + 1)}

\* The runs on which the progress of the calls is checked: three paced calls
\* of two types, a midnight 5 s after construction.
LiveSetups == {Setup(Paced, 5 * Second, {ActionConnect, ActionBrowse}, 3)}

\* The instants at which the environment acts (besides the instants at which
\* a timer ends).
Instants == {5 * Second, 31 * Second}

NoCall == [action |-> "none"]
NoStats == [daily |-> <<>>]

\* -------------------------------------------------------------------- Init
\* NewRateLimiter (part_003:65-79) in one of the runs of S.
Start(S) ==
    /\ now = 0
    /\ \E s \in S :
          /\ config = s.config
          /\ env = [firstMidnight |-> s.firstMidnight, asked |-> s.asked,
                    calls |-> s.calls]
    /\ lastActionTime = [a \in ActionType |-> ZeroTime]
    /\ actionCounts = [a \in ActionType |-> 0]
    /\ dailyCounts = [a \in ActionType |-> 0]
    /\ dailyResetTime = getNextMidnight(0)
    /\ dailyWake = getNextMidnight(0)
    /\ mu = Nobody
    /\ pc = [c \in Callers |-> "idle"]
    /\ call = [c \in Callers |-> NoCall]
    /\ ctxDone = [c \in Callers |-> FALSE]
    /\ hourlyTasks = <<>>
    /\ stats = NoStats
    /\ log = <<>>
    /\ zeroed = <<>>

\* No schedule gate in use, no HumanLikeScroll call, no helper or Login call.
NoGate == [pc |-> "none"]
NoScroll == [pc |-> "none"]
NoHelper == [pc |-> "none"]
HelpersIdle ==
    timing = NoHelper /\ idle = NoHelper /\ path = NoHelper /\ login = NoHelper
StealthIdle ==
    gate = NoGate /\ breaks = <<>> /\ scroll = NoScroll /\ HelpersIdle

Init == Start(Setups) /\ StealthIdle

\* ----------------------------------------------------------------- actions
InFlight == Cardinality({c \in Callers : pc[c] # "idle"})

\* A caller invokes WaitForPermission(ctx, action) and is at rl.mu.Lock()
\* (part_003:83).  Callers are interchangeable: the second one is used only
\* while the first has a call in flight.
Before(d, c) == d = "c1" /\ c = "c2"

Call(c, action) ==
    /\ UNCHANGED stealth
    /\ pc[c] = "idle"
    /\ \A d \in Callers : Before(d, c) => pc[d] # "idle"
    /\ action \in env.asked
    /\ Len(log) + InFlight < env.calls
    /\ pc' = [pc EXCEPT ![c] = "lock"]
    /\ call' = [call EXCEPT ![c] = [action |-> action, called |-> now]]
    /\ ctxDone' = [ctxDone EXCEPT ![c] = FALSE]
    /\ UNCHANGED <<now, config, env, ledger, dailyResetTime, mu,
                   hourlyTasks, dailyWake, stats, log, zeroed>>

\* The caller's context is cancelled: before the call takes the mutex (the
\* context has then fired when the checks run) or while it is in the select.
Cancel(c) ==
    /\ UNCHANGED stealth
    /\ pc[c] = "lock" \/ (pc[c] = "select" /\ now < call[c].at + call[c].wait)
    /\ ~ctxDone[c]
    /\ ctxDone' = [ctxDone EXCEPT ![c] = TRUE]
    /\ UNCHANGED <<now, config, env, ledger, dailyResetTime, mu, pc,
                   call, hourlyTasks, dailyWake, stats, log, zeroed>>

\* Faulty variant of updateTracking: the commit is counted against the daily
\* quota of every action type.
updateTrackingAll(action) ==
    /\ lastActionTime' = [lastActionTime EXCEPT ![action] = now]
    /\ actionCounts' = [actionCounts EXCEPT ![action] = @ + 1]
    /\ dailyCounts' = [a \in ActionType |-> dailyCounts[a] + 1]
    /\ hourlyTasks' = Append(hourlyTasks, [action |-> action, wake |-> now + Hour])

\* updateTracking (part_003:264-277): the commit, and the hourlyReset goroutine
\* it starts, asleep for time.Hour.
updateTracking(action) ==
    /\ lastActionTime' = [lastActionTime EXCEPT ![action] = now]
    /\ actionCounts' = [actionCounts EXCEPT ![action] = @ + 1]
    /\ dailyCounts' = [dailyCounts EXCEPT ![action] = @ + 1]
    /\ hourlyTasks' = Append(hourlyTasks, [action |-> action, wake |-> now + Hour])

\* What a call knows once it holds the mutex and has computed wait (-1 when a
\* check failed): when it was made, when it took the mutex, whether its context
\* had fired by then, and the ledger its checks read.
Info(c, wait) ==
    [action |-> call[c].action, called |-> call[c].called, at |-> now,
     wait |-> wait, ctx0 |-> ctxDone[c], pre |-> Ledger]

\* The record of a call that returns err, leaving the ledger post; ctx1 tells
\* whether its context had fired by the time its select was decided (Cancel is
\* not taken once the timer has ended).
Returned(c, info, err, post) ==
    [action |-> info.action, err |-> err, called |-> info.called, at |-> info.at,
     ret |-> now, wait |-> info.wait, ctx0 |-> info.ctx0, ctx1 |-> ctxDone[c],
     pre |-> info.pre, post |-> post]

\* Faulty variant of Deny: the denied call is counted against the daily quota.
DenyCounting(c) ==
    /\ UNCHANGED stealth
    /\ pc[c] = "lock"
    /\ mu = Nobody
    /\ Checks(call[c].action) # Nil
    /\ dailyCounts' = [dailyCounts EXCEPT ![call[c].action] = @ + 1]
    /\ UNCHANGED <<lastActionTime, actionCounts>>
    /\ pc' = [pc EXCEPT ![c] = "idle"]
    /\ call' = [call EXCEPT ![c] = NoCall]
    /\ ctxDone' = [ctxDone EXCEPT ![c] = FALSE]
    /\ log' = Append(log, Returned(c, Info(c, -1), Checks(call[c].action), Ledger'))
    /\ UNCHANGED <<now, config, env, dailyResetTime, mu, hourlyTasks, dailyWake,
                   stats, zeroed>>

\* WaitForPermission takes the mutex and one of the checks fails: the error is
\* returned and the deferred Unlock runs (part_003:83-99).
Deny(c) ==
    /\ UNCHANGED stealth
    /\ pc[c] = "lock"
    /\ mu = Nobody
    /\ Checks(call[c].action) # Nil
    /\ UNCHANGED ledger
    /\ pc' = [pc EXCEPT ![c] = "idle"]
    /\ call' = [call EXCEPT ![c] = NoCall]
    /\ ctxDone' = [ctxDone EXCEPT ![c] = FALSE]
    /\ log' = Append(log, Returned(c, Info(c, -1), Checks(call[c].action), Ledger'))
    /\ UNCHANGED <<now, config, env, dailyResetTime, mu, hourlyTasks, dailyWake,
                   stats, zeroed>>

\* Faulty variant of HolderInSelect: the mutex is released for the wait.
HolderInSelectNobody(c) == Nobody

\* Who holds the mutex while a call is blocked in the select: the call itself,
\* since Unlock is deferred to its return (part_003:83-84).
HolderInSelect(c) == c

\* WaitForPermission takes the mutex, passes the checks and computes delay on
\* the draw k (part_003:83-122): with delay > 0 it blocks in the select,
\* holding the mutex; with delay = 0 it commits and returns nil.
Admit(c, k) ==
    /\ UNCHANGED stealth
    /\ pc[c] = "lock"
    /\ mu = Nobody
    /\ Checks(call[c].action) = Nil
    /\ LET delay == Delay(call[c].action, k) IN
         IF delay > 0
         THEN /\ mu' = HolderInSelect(c)
              /\ pc' = [pc EXCEPT ![c] = "select"]
              /\ call' = [call EXCEPT ![c] = Info(c, delay)]
              /\ UNCHANGED <<ledger, ctxDone, hourlyTasks, log>>
         ELSE /\ updateTracking(call[c].action)
              /\ pc' = [pc EXCEPT ![c] = "idle"]
              /\ call' = [call EXCEPT ![c] = NoCall]
              /\ ctxDone' = [ctxDone EXCEPT ![c] = FALSE]
              /\ log' = Append(log, Returned(c, Info(c, delay), Nil, Ledger'))
              /\ UNCHANGED mu
    /\ UNCHANGED <<now, config, env, dailyResetTime, dailyWake, stats, zeroed>>

\* Faulty variant of TimerFired: the call returns without releasing the mutex.
TimerFiredKeepsLock(c) ==
    /\ UNCHANGED stealth
    /\ pc[c] = "select"
    /\ now >= call[c].at + call[c].wait
    /\ updateTracking(call[c].action)
    /\ mu' = mu
    /\ pc' = [pc EXCEPT ![c] = "idle"]
    /\ call' = [call EXCEPT ![c] = NoCall]
    /\ ctxDone' = [ctxDone EXCEPT ![c] = FALSE]
    /\ log' = Append(log, Returned(c, call[c], Nil, Ledger'))
    /\ UNCHANGED <<now, config, env, dailyResetTime, dailyWake, stats, zeroed>>

\* case <-time.After(delay) of the select (part_003:117, 124-127): the timer
\* ended before the context was cancelled; the call commits and returns nil.
TimerFired(c) ==
    /\ UNCHANGED stealth
    /\ pc[c] = "select"
    /\ now >= call[c].at + call[c].wait
    /\ updateTracking(call[c].action)
    /\ mu' = Nobody
    /\ pc' = [pc EXCEPT ![c] = "idle"]
    /\ call' = [call EXCEPT ![c] = NoCall]
    /\ ctxDone' = [ctxDone EXCEPT ![c] = FALSE]
    /\ log' = Append(log, Returned(c, call[c], Nil, Ledger'))
    /\ UNCHANGED <<now, config, env, dailyResetTime, dailyWake, stats, zeroed>>

\* Faulty variant of CtxDone: the cancelled call is committed before it returns.
CtxDoneCommits(c) ==
    /\ UNCHANGED stealth
    /\ pc[c] = "select"
    /\ ctxDone[c]
    /\ now < call[c].at + call[c].wait
    /\ updateTracking(call[c].action)
    /\ mu' = Nobody
    /\ pc' = [pc EXCEPT ![c] = "idle"]
    /\ call' = [call EXCEPT ![c] = NoCall]
    /\ ctxDone' = [ctxDone EXCEPT ![c] = FALSE]
    /\ log' = Append(log, Returned(c, call[c], ErrCanceled, Ledger'))
    /\ UNCHANGED <<now, config, env, dailyResetTime, dailyWake, stats, zeroed>>

\* case <-ctx.Done() of the select (part_003:119-120): the context was
\* cancelled before the timer ended; ctx.Err() is returned.
CtxDone(c) ==
    /\ UNCHANGED stealth
    /\ pc[c] = "select"
    /\ ctxDone[c]
    /\ now < call[c].at + call[c].wait
    /\ UNCHANGED ledger
    /\ mu' = Nobody
    /\ pc' = [pc EXCEPT ![c] = "idle"]
    /\ call' = [call EXCEPT ![c] = NoCall]
    /\ ctxDone' = [ctxDone EXCEPT ![c] = FALSE]
    /\ log' = Append(log, Returned(c, call[c], ErrCanceled, Ledger'))
    /\ UNCHANGED <<now, config, env, dailyResetTime, hourlyTasks, dailyWake,
                   stats, zeroed>>

\* One hourlyReset goroutine (part_003:280-287): after time.Sleep(time.Hour) it
\* takes the mutex and zeroes the count of its action type.
hourlyReset(i) ==
    /\ UNCHANGED stealth
    /\ i \in DOMAIN hourlyTasks
    /\ hourlyTasks[i].wake <= now
    /\ mu = Nobody
    /\ actionCounts' = [actionCounts EXCEPT ![hourlyTasks[i].action] = 0]
    /\ hourlyTasks' = [j \in 1 .. (Len(hourlyTasks) - 1) |->
                          IF j < i THEN hourlyTasks[j] ELSE hourlyTasks[j + 1]]
    /\ zeroed' = Append(zeroed, [action |-> hourlyTasks[i].action, at |-> now])
    /\ UNCHANGED <<now, config, env, lastActionTime, dailyCounts,
                   dailyResetTime, mu, pc, call, ctxDone, dailyWake, stats, log>>

\* One round of the dailyReset goroutine (part_003:290-305): after its sleep it
\* takes the mutex, replaces dailyCounts by an empty map, sets dailyResetTime,
\* and sleeps until the next midnight.
dailyReset ==
    /\ UNCHANGED stealth
    /\ dailyWake <= now
    /\ mu = Nobody
    /\ dailyCounts' = [a \in ActionType |-> 0]
    /\ dailyResetTime' = getNextMidnight(now)
    /\ dailyWake' = getNextMidnight(now)
    /\ UNCHANGED <<now, config, env, lastActionTime, actionCounts, mu,
                   pc, call, ctxDone, hourlyTasks, stats, log, zeroed>>

\* t.Format(time.RFC3339) of a time t: the second t lies in; the layout has no
\* place for a part of a second.  The limiter is constructed on a whole second.
FormatRFC3339(t) == t \div Second

\* Faulty variant of GetStats: the snapshot rolls the daily counts over when
\* the reset time it reports has passed.
GetStatsRollover ==
    /\ UNCHANGED stealth
    /\ mu = Nobody
    /\ stats' = [daily |-> <<dailyCounts[ActionSearch], dailyCounts[ActionConnect],
                             dailyCounts[ActionMessage]>>,
                 last |-> [a \in {b \in ActionType : lastActionTime[b] # ZeroTime}
                              |-> FormatRFC3339(lastActionTime[a])],
                 next_daily_reset |-> FormatRFC3339(dailyResetTime)]
    /\ stats' # stats
    /\ IF now >= dailyResetTime
       THEN /\ dailyCounts' = [a \in ActionType |-> 0]
            /\ dailyResetTime' = getNextMidnight(now)
       ELSE UNCHANGED <<dailyCounts, dailyResetTime>>
    /\ UNCHANGED <<now, config, env, lastActionTime, actionCounts, mu, pc,
                   call, ctxDone, hourlyTasks, dailyWake, log, zeroed>>

\* GetStats (part_003:315-335) under the read lock.
GetStats ==
    /\ UNCHANGED stealth
    /\ mu = Nobody
    /\ stats' = [daily |-> <<dailyCounts[ActionSearch], dailyCounts[ActionConnect],
                             dailyCounts[ActionMessage]>>,
                 last |-> [a \in {b \in ActionType : lastActionTime[b] # ZeroTime}
                              |-> FormatRFC3339(lastActionTime[a])],
                 next_daily_reset |-> FormatRFC3339(dailyResetTime)]
    /\ stats' # stats
    /\ UNCHANGED <<now, config, env, ledger, dailyResetTime, mu, pc,
                   call, ctxDone, hourlyTasks, dailyWake, log, zeroed>>

\* A goroutine that can take a step now.
Runnable ==
    \/ \E c \in Callers : pc[c] = "lock" /\ mu = Nobody
    \/ \E c \in Callers : pc[c] = "select"
                            /\ (ctxDone[c] \/ now >= call[c].at + call[c].wait)
    \/ \E i \in DOMAIN hourlyTasks : hourlyTasks[i].wake <= now /\ mu = Nobody
    \/ dailyWake <= now /\ mu = Nobody

\* The instants at which the timer of a blocked select ends.
SelectEnds ==
    {call[c].at + call[c].wait : c \in {d \in Callers : pc[d] = "select"}}

\* The instants after now at which a timer or a sleep ends.
TimerEnds ==
    SelectEnds \cup {hourlyTasks[i].wake : i \in DOMAIN hourlyTasks}
        \cup {dailyWake}

\* Time passes, up to the next instant at which a timer or a sleep ends.  The
\* clock stops at MaxTime, but for the timer of a blocked select.
Tick(t) ==
    /\ UNCHANGED stealth
    /\ ~Runnable
    /\ t > now
    /\ t <= MaxTime * Second \/ t \in SelectEnds
    /\ \A e \in TimerEnds : e > now => t <= e
    /\ now' = t
    /\ UNCHANGED <<config, env, ledger, dailyResetTime, mu, pc, call,
                   ctxDone, hourlyTasks, dailyWake, stats, log, zeroed>>

\* The steps of the limiter, its callers and its reset goroutines.  GetStats is
\* not among them: it is a step of StatsNext.
Next ==
    \/ \E c \in Callers, action \in ActionType : Call(c, action)
    \/ \E c \in Callers : Cancel(c)
    \/ \E c \in Callers : Deny(c)
    \/ \E c \in Callers, k \in FloatDraws : Admit(c, k)
    \/ \E c \in Callers : TimerFired(c)
    \/ \E c \in Callers : CtxDone(c)
    \/ \E i \in DOMAIN hourlyTasks : hourlyReset(i)
    \/ dailyReset
    \/ \E t \in Instants \cup TimerEnds : Tick(t)

Spec == Init /\ [][Next]_vars

\* The steps of the call of caller c once it is made.
Progress(c) ==
    \/ Deny(c)
    \/ \E k \in FloatDraws : Admit(c, k)
    \/ TimerFired(c)
    \/ CtxDone(c)

\* The scheduler runs a goroutine that stays runnable, the mutex is handed to
\* a goroutine that waits for it, and time passes.  Nothing makes a caller call
\* or cancel.
Fairness ==
    /\ \A c \in Callers : WF_vars(Progress(c))
    /\ WF_vars(\E i \in DOMAIN hourlyTasks : hourlyReset(i))
    /\ WF_vars(dailyReset)
    /\ WF_vars(\E t \in Instants \cup TimerEnds : Tick(t))

LiveInit == Start(LiveSetups) /\ StealthIdle

LiveSpec == LiveInit /\ [][Next]_vars /\ Fairness

\* ------------------------------------------------- stealth: the schedule gate
\* ShouldTakeBreak and TakeBreak of the StealthManager (package stealth,
\* part_000), called by one workflow that keeps the time of its last break and
\* owns a cancellation signal.

\* A limiter that nobody calls.
Unused == {Setup(DailyOnly, Day, {}, 0)}

\* ScheduleConfig (part_000:72-79) with the fields the gate reads, given in
\* seconds.
MkSchedule(breakDuration, breakFrequency) ==
    [BreakDuration |-> breakDuration * Second,
     BreakFrequency |-> breakFrequency * Second]

Schedules == {MkSchedule(5, 20), MkSchedule(10, 30)}

\* ShouldTakeBreak (part_000:264-266)
ShouldTakeBreak(lastBreak) == now - lastBreak >= gate.cfg.BreakFrequency

\* breakDuration of TakeBreak (part_000:273-277) on the draw k of
\* rng.Float64(): the variation and the drawn part of the duration are
\* truncated by time.Duration() to a whole number of the unit of time.
breakDuration(k) ==
    LET variation == (gate.cfg.BreakDuration * 2) \div 10
        minDuration == gate.cfg.BreakDuration - variation
        maxDuration == gate.cfg.BreakDuration + variation
    IN minDuration + (k * (maxDuration - minDuration)) \div (2 * JitterGrain)

\* The workflow starts with the time of its last break set to the start.
GateInit ==
    /\ Start(Unused)
    /\ \E sc \in Schedules :
          gate = [pc |-> "active", cfg |-> sc, lastBreak |-> 0,
                  start |-> 0, duration |-> 0, signal |-> -1]
    /\ breaks = <<>>
    /\ scroll = NoScroll
    /\ HelpersIdle

\* The workflow finds a break due and calls TakeBreak, which computes the
\* duration and goes to sleep (part_000:269-279).
TakeBreak(k) ==
    /\ gate.pc = "active"
    /\ ShouldTakeBreak(gate.lastBreak)
    /\ Len(breaks) < MaxBreaks
    /\ gate' = [gate EXCEPT !.pc = "sleep", !.start = now,
                            !.duration = breakDuration(k), !.signal = -1]
    /\ UNCHANGED <<now, limiter, helpers, breaks, scroll>>

\* The workflow's cancellation signal fires during the break.  TakeBreak has no
\* parameter through which it could learn of it.
SignalBreak ==
    /\ gate.pc = "sleep"
    /\ gate.signal = -1
    /\ now < gate.start + gate.duration
    /\ gate' = [gate EXCEPT !.signal = now]
    /\ UNCHANGED <<now, limiter, helpers, breaks, scroll>>

\* time.Sleep(breakDuration) ends and TakeBreak returns nil (part_000:279-282).
BreakOver ==
    /\ gate.pc = "sleep"
    /\ now >= gate.start + gate.duration
    /\ gate' = [gate EXCEPT !.pc = "active"]
    /\ breaks' = Append(breaks, [start |-> gate.start, duration |-> gate.duration,
                                 signal |-> gate.signal, ret |-> now])
    /\ UNCHANGED <<now, limiter, helpers, scroll>>

\* The time left of the sleep of TakeBreak.
SleepLeft ==
    IF gate.pc = "sleep" /\ now < gate.start + gate.duration
    THEN {gate.start + gate.duration - now} ELSE {}

\* Time passes, by a few seconds or to the end of the sleep, and not beyond
\* the end of the sleep.  The clock stops at MaxGateTime, but for a sleep to
\* end.
GateTick(d) ==
    /\ now + d <= MaxGateTime * Second \/ gate.pc = "sleep"
    /\ gate.pc = "sleep" => /\ now < gate.start + gate.duration
                            /\ now + d <= gate.start + gate.duration
    /\ now' = now + d
    /\ UNCHANGED <<limiter, stealth>>

GateNext ==
    \/ \E k \in FloatDraws : TakeBreak(k)
    \/ SignalBreak
    \/ BreakOver
    \/ \E d \in {n * Second : n \in 1 .. 5} \cup SleepLeft : GateTick(d)

GateSpec == GateInit /\ [][GateNext]_vars

\* ------------------------------------------------ stealth: HumanLikeScroll
\* Go's integer division, which truncates toward zero.
GoDiv(a, b) == IF a >= 0 THEN a \div b ELSE -((-a) \div b)

\* ScrollingConfig (part_000:62-69)
MkScrolling(variable, accel, decel, back, minSpeed, maxSpeed) ==
    [VariableSpeed |-> variable, Acceleration |-> accel, Deceleration |-> decel,
     ScrollBack |-> back, MinSpeed |-> minSpeed, MaxSpeed |-> maxSpeed]

Scrollings ==
    {MkScrolling(v, a, d, b, sp[1], sp[2]) :
        v \in BOOLEAN, a \in BOOLEAN, d \in BOOLEAN, b \in BOOLEAN,
        sp \in {<<1, 1>>, <<1, 3>>, <<2, 5>>}}

\* The draws of s.rng.Intn(MaxSpeed-MinSpeed+1).
SpeedDraws == 0 .. (scroll.cfg.MaxSpeed - scroll.cfg.MinSpeed)

\* Faulty variant of scrollSpeed: the step is not limited to what remains.
scrollSpeedUnlimited(r) ==
    LET c == scroll.cfg
        drawn == IF c.VariableSpeed THEN c.MinSpeed + r
                 ELSE GoDiv(c.MinSpeed + c.MaxSpeed, 2)
    IN IF c.Acceleration /\ scroll.remaining > GoDiv(scroll.scrollAmount, 2)
       THEN (drawn * 7) \div 10
       ELSE IF c.Deceleration /\ scroll.remaining < GoDiv(scroll.scrollAmount, 4)
       THEN (drawn * 13) \div 10
       ELSE drawn

\* The factor, in tenths, that one round of the loop applies to the speed
\* (part_000:215-219): 0.7, 1.3 or none.
scrollFactor ==
    IF scroll.cfg.Acceleration /\ scroll.remaining > GoDiv(scroll.scrollAmount, 2)
    THEN 7
    ELSE IF scroll.cfg.Deceleration
            /\ scroll.remaining < GoDiv(scroll.scrollAmount, 4)
    THEN 13
    ELSE 10

\* scrollSpeed of one round of the loop (part_000:206-224) on the draw r.
\* int(float64(v) * 0.7) is (v * 7) \div 10 and int(float64(v) * 1.3) is
\* (v * 13) \div 10 for the speeds 0 <= v < 90 of Scrollings.
scrollSpeed(r) ==
    LET c == scroll.cfg
        drawn == IF c.VariableSpeed THEN c.MinSpeed + r
                 ELSE GoDiv(c.MinSpeed + c.MaxSpeed, 2)
        paced == (drawn * scrollFactor) \div 10
    IN IF paced > scroll.remaining THEN scroll.remaining ELSE paced

\* HumanLikeScroll(page, scrollAmount) is called on a page scrolled to 0.
ScrollInit ==
    /\ Start(Unused)
    /\ gate = NoGate
    /\ breaks = <<>>
    /\ HelpersIdle
    /\ \E c \in Scrollings, amount \in (-MaxScroll) .. MaxScroll :
          scroll = [pc |-> "called", cfg |-> c, scrollAmount |-> amount,
                    remaining |-> 0, direction |-> 0, pageY |-> 0,
                    total |-> 0, last |-> 0, before |-> 0, factor |-> 0,
                    steps |-> 0, back |-> <<>>]

\* remaining and direction are set (part_000:198-203).
ScrollEnter ==
    /\ scroll.pc = "called"
    /\ scroll' = [scroll EXCEPT
                     !.pc = "loop",
                     !.remaining = IF scroll.scrollAmount < 0
                                   THEN -scroll.scrollAmount
                                   ELSE scroll.scrollAmount,
                     !.direction = IF scroll.scrollAmount < 0 THEN -1 ELSE 1]
    /\ UNCHANGED <<now, limiter, helpers, gate, breaks>>

\* One round of the loop (part_000:205-233): the page is scrolled by
\* scrollSpeed*direction.  total, last, before, factor and steps record the
\* steps.
ScrollStep(r) ==
    /\ scroll.pc = "loop"
    /\ scroll.remaining > 0
    /\ scroll' = [scroll EXCEPT
                     !.pageY = @ + scrollSpeed(r) * scroll.direction,
                     !.remaining = @ - scrollSpeed(r),
                     !.total = @ + scrollSpeed(r) * scroll.direction,
                     !.last = scrollSpeed(r) * scroll.direction,
                     !.before = scroll.remaining,
                     !.factor = scrollFactor,
                     !.steps = IF @ < 2 THEN @ + 1 ELSE @]
    /\ UNCHANGED <<now, limiter, helpers, gate, breaks>>

\* The loop ends and the scroll-back is decided on the draw k of rng.Float64()
\* (part_000:236): taken when ScrollBack is set and k / (2 * JitterGrain) < 0.2.
\* The page is then scrolled back by scrollAmount/10 (part_000:237-240).
ScrollLoopEnd(k) ==
    /\ scroll.pc = "loop"
    /\ scroll.remaining <= 0
    /\ IF scroll.cfg.ScrollBack /\ 10 * k < 2 * (2 * JitterGrain)
       THEN LET scrollBack == GoDiv(scroll.scrollAmount, 10)
            IN scroll' = [scroll EXCEPT !.pc = "back",
                                        !.pageY = @ - scrollBack,
                                        !.back = Append(@, -scrollBack)]
       ELSE scroll' = [scroll EXCEPT !.pc = "done"]
    /\ UNCHANGED <<now, limiter, helpers, gate, breaks>>

\* The page is scrolled forward again and HumanLikeScroll returns nil
\* (part_000:241-248).
ScrollForward ==
    /\ scroll.pc = "back"
    /\ LET scrollBack == GoDiv(scroll.scrollAmount, 10)
       IN scroll' = [scroll EXCEPT !.pc = "done",
                                   !.pageY = @ + scrollBack,
                                   !.back = Append(@, scrollBack)]
    /\ UNCHANGED <<now, limiter, helpers, gate, breaks>>

\* page.Mouse.Scroll returns an error and HumanLikeScroll returns it
\* (part_000:227-229, 238-240, 242-244).
ScrollFails ==
    /\ \/ scroll.pc = "loop" /\ scroll.remaining > 0
       \/ scroll.pc = "loop" /\ scroll.remaining <= 0 /\ scroll.cfg.ScrollBack
       \/ scroll.pc = "back"
    /\ scroll' = [scroll EXCEPT !.pc = "failed"]
    /\ UNCHANGED <<now, limiter, helpers, gate, breaks>>

ScrollNext ==
    \/ ScrollEnter
    \/ \E r \in SpeedDraws : ScrollStep(r)
    \/ \E k \in FloatDraws : ScrollLoopEnd(k)
    \/ ScrollForward
    \/ ScrollFails

ScrollSpec == ScrollInit /\ [][ScrollNext]_vars

\* ------------------------------------------------------------------ claims
\* The calls of one action type that have returned, in the order they returned.
Calls(a) == SelectSeq(log, LAMBDA e : e.action = a)

\* The indices of the calls of type a committed before the call at index j.
CommitsBefore(j) ==
    {i \in 1 .. (j - 1) : log[i].err = Nil /\ log[i].action = log[j].action}

\* C1: with a daily limit L > 0 and no hourly or burst limit, within the first
\* calendar day and with no call cancelled, the first L calls of a type return
\* nil and call L+1 returns the daily-limit error, leaving the daily count at L.
C1_DailyQuota ==
    \A a \in Limited :
        (/\ dailyLimit(a) > 0
         /\ hourlyLimit(a) = 0
         /\ config.BurstLimit = 0
         /\ now < env.firstMidnight)
        => \A n \in 1 .. Len(Calls(a)) :
               (\A m \in 1 .. n : Calls(a)[m].err # ErrCanceled)
               => /\ n <= dailyLimit(a) => Calls(a)[n].err = Nil
                  /\ n = dailyLimit(a) + 1
                       => /\ Calls(a)[n].err = ErrDaily
                          /\ Calls(a)[n].post.daily[a] = dailyLimit(a)

C1_Witness ==
    /\ dailyLimit(ActionConnect) > 0
    /\ hourlyLimit(ActionConnect) = 0
    /\ config.BurstLimit = 0
    /\ now < env.firstMidnight
    /\ Len(Calls(ActionConnect)) = dailyLimit(ActionConnect) + 1
    /\ \A m \in 1 .. Len(Calls(ActionConnect)) :
           Calls(ActionConnect)[m].err # ErrCanceled
    /\ Calls(ActionConnect)[dailyLimit(ActionConnect) + 1].err = ErrDaily
    /\ dailyCounts[ActionConnect] = dailyLimit(ActionConnect)

\* C2: with JitterPercent in 0..100, a commit of a type comes no earlier than
\* max(MinDelay, typeDelay) * (1 - JitterPercent/100) after the previous commit
\* of that type.
C2_MinSpacing ==
    config.JitterPercent \in 0 .. 100
    => \A j \in DOMAIN log : \A i \in CommitsBefore(j) :
           (/\ log[j].err = Nil
            /\ \A m \in CommitsBefore(j) : m <= i)
           => (log[j].ret - log[i].ret) * 100
                  >= requiredDelay(log[j].action) * (100 - config.JitterPercent)

C2_Witness ==
    \E j \in DOMAIN log : \E i \in CommitsBefore(j) :
        /\ log[j].err = Nil
        /\ \A m \in CommitsBefore(j) : m <= i
        /\ config.JitterPercent > 0
        /\ log[j].wait > 0
        /\ log[j].ret - log[i].ret < requiredDelay(log[j].action)

\* C3: a call whose context is cancelled while it is suspended in its wait
\* returns the cancellation error and leaves the daily count, the hourly count
\* and the last-action time of its type as they were before the call.
C3_CancelNoCommit ==
    \A i \in DOMAIN log :
        (log[i].wait > 0 /\ ~log[i].ctx0 /\ log[i].ctx1)
        => /\ log[i].err = ErrCanceled
           /\ log[i].post.daily[log[i].action] = log[i].pre.daily[log[i].action]
           /\ log[i].post.hourly[log[i].action] = log[i].pre.hourly[log[i].action]
           /\ log[i].post.last[log[i].action] = log[i].pre.last[log[i].action]

C3_Witness ==
    \E i \in DOMAIN log :
        /\ log[i].wait > 0 /\ ~log[i].ctx0 /\ log[i].ctx1
        /\ log[i].err = ErrCanceled
        /\ log[i].ret > log[i].at
        /\ dailyCounts[log[i].action] = log[i].pre.daily[log[i].action]

\* C4: a call whose context has fired before it starts and whose computed wait
\* is 0 returns the cancellation error and commits nothing.
C4_CancelledBeforeCall ==
    \A i \in DOMAIN log :
        (log[i].ctx0 /\ log[i].wait = 0)
        => log[i].err = ErrCanceled /\ log[i].post = log[i].pre

\* C5: a call denied for the daily, the hourly or the burst limit leaves the
\* daily counts, hourly counts and last-action times of every type unchanged.
C5_DenyFrame ==
    \A i \in DOMAIN log :
        log[i].err \in {ErrDaily, ErrHourly, ErrBurst} => log[i].post = log[i].pre

C5_Witness ==
    \E i \in DOMAIN log :
        /\ log[i].err = ErrBurst
        /\ log[i].post = log[i].pre
        /\ log[i].pre.hourly[log[i].action] > 0

\* C6: two zeroings of one type's hourly count are at least one hour apart, and
\* a zeroing never comes less than one hour after a commit of that type.
C6_HourlyZeroing ==
    /\ \A i, j \in DOMAIN zeroed :
           (i < j /\ zeroed[i].action = zeroed[j].action)
           => zeroed[j].at - zeroed[i].at >= Hour
    /\ \A z \in DOMAIN zeroed : \A i \in DOMAIN log :
           (/\ log[i].err = Nil
            /\ log[i].action = zeroed[z].action
            /\ log[i].ret < zeroed[z].at)
           => zeroed[z].at - log[i].ret >= Hour

\* C7: with BurstLimit B > 0, fewer than B actions of a type were committed
\* less than BurstWindow before any commit of that type.
C7_BurstCap ==
    config.BurstLimit > 0
    => \A j \in DOMAIN log :
           log[j].err = Nil
           => Cardinality({i \in CommitsBefore(j) :
                              log[j].ret - log[i].ret < config.BurstWindow})
                  < config.BurstLimit

\* C8: a call is denied for the burst limit only if at least BurstLimit actions
\* of its type were committed within the last BurstWindow before the call.
C8_BurstDenialJustified ==
    \A j \in DOMAIN log :
        log[j].err = ErrBurst
        => Cardinality({i \in CommitsBefore(j) :
                           log[j].at - log[i].ret < config.BurstWindow})
               >= config.BurstLimit

\* The first n calls of the scenario of C9 went as it tells: the first connect
\* call, a second one 5 s later, a third one 31 s after the first.
ScenarioPrefix(n) ==
    /\ Len(Calls(ActionConnect)) >= n
    /\ n >= 2 => Calls(ActionConnect)[2].at = Calls(ActionConnect)[1].at + 5 * Second
    /\ n >= 3 => Calls(ActionConnect)[3].at = Calls(ActionConnect)[1].at + 31 * Second

\* C9: with DailyConnects=2, HourlyConnects=5, BurstLimit=1, BurstWindow=30s and
\* no delays, the first connect call returns nil at once, a second call 5 s
\* later is denied for burst, a call 31 s after the first returns nil and makes
\* the daily count 2, and every later call of that day is denied for the daily
\* limit.
C9_Scenario ==
    config = Scenario
    => /\ ScenarioPrefix(1)
          => /\ Calls(ActionConnect)[1].err = Nil
             /\ Calls(ActionConnect)[1].ret = Calls(ActionConnect)[1].called
       /\ ScenarioPrefix(2) => Calls(ActionConnect)[2].err = ErrBurst
       /\ ScenarioPrefix(3)
          => /\ Calls(ActionConnect)[3].err = Nil
             /\ Calls(ActionConnect)[3].post.daily[ActionConnect] = 2
       /\ \A n \in 4 .. Len(Calls(ActionConnect)) :
              (ScenarioPrefix(3) /\ Calls(ActionConnect)[n].at < env.firstMidnight)
              => Calls(ActionConnect)[n].err = ErrDaily

C9_Witness ==
    /\ config = Scenario
    /\ ScenarioPrefix(4)
    /\ Calls(ActionConnect)[2].err = ErrBurst
    /\ Calls(ActionConnect)[3].err = Nil
    /\ Calls(ActionConnect)[4].at < env.firstMidnight
    /\ Calls(ActionConnect)[4].err = ErrDaily
    /\ dailyCounts[ActionConnect] = 2

\* C10: of two committed calls of one type, the one that commits second ran
\* its checks and computed its delay after the first one's commit, on a
\* last-action time no older than that commit.
C10_Serialized ==
    \A j \in DOMAIN log : \A i \in CommitsBefore(j) :
        log[j].err = Nil
        => /\ log[j].at >= log[i].ret
           /\ log[j].pre.last[log[j].action] >= log[i].ret

C10_Witness ==
    \E j \in DOMAIN log : \E i \in CommitsBefore(j) :
        /\ log[j].err = Nil
        /\ log[i].wait > 0
        /\ log[j].called < log[i].ret
        /\ log[j].wait > 0
        /\ log[j].at = log[i].ret
        /\ log[j].pre.last[log[j].action] = log[i].ret

\* The quota and burst denials.
Denials == {ErrDaily, ErrHourly, ErrBurst}

\* C11: while a call of one type is suspended in its pacing delay, a call of a
\* different type that passes its checks and has no delay of its own to wait
\* can take its step: run its checks, commit and return.
C11_TypesIndependent ==
    \A c, d \in Callers :
        (/\ pc[c] = "select"
         /\ now < call[c].at + call[c].wait
         /\ pc[d] = "lock"
         /\ call[d].action # call[c].action
         /\ Checks(call[d].action) = Nil
         /\ calculateDelay(call[d].action) = 0)
        => ENABLED (\E k \in FloatDraws : Admit(d, k))

\* C12: a call that is denied for a quota or for the burst limit returns at the
\* instant it was made: it waits for no pacing delay, its own or another
\* caller's.
C12_DenialImmediate ==
    \A i \in DOMAIN log :
        log[i].err \in Denials => log[i].ret = log[i].called

\* C13: under fair scheduling of the goroutines, of the mutex and of the
\* timers, every WaitForPermission call that is made returns.
C13_EventuallyReturns ==
    \A c \in Callers : (pc[c] # "idle") ~> (pc[c] = "idle")

\* A call that was blocked on the mutex behind a suspended call, then waited
\* its own delay, has returned, and a reset goroutine has run.
C13_Witness ==
    /\ \E j \in DOMAIN log :
           /\ log[j].at > log[j].called
           /\ log[j].wait > 0
           /\ log[j].ret > log[j].at
    /\ now > env.firstMidnight
    /\ dailyWake > now
    /\ \A c \in Callers : pc[c] = "idle"

\* The calls of the type of the call at index j committed before it, at or
\* after the first midnight.
SinceMidnight(j) == {i \in CommitsBefore(j) : log[i].ret >= env.firstMidnight}

\* C14: the checks of a call made after the first midnight (and before the
\* second) read a daily count that holds the actions of the call's type
\* committed since that midnight and no others: none of the day before is
\* counted, and the one reset of that midnight discards none of the new day.
C14_DailyRollover ==
    \A j \in DOMAIN log :
        (log[j].at > env.firstMidnight /\ log[j].at < env.firstMidnight + Day)
        => log[j].pre.daily[log[j].action] = Cardinality(SinceMidnight(j))

\* The actions of one type for which an hourlyReset goroutine is pending.
Pending(a) == {i \in DOMAIN hourlyTasks : hourlyTasks[i].action = a}

\* C15: admitting an action leaves no more reset tasks pending than there were:
\* at most one hourly reset task per action type is pending, however many
\* actions have been admitted.
C15_BoundedResetTasks ==
    \A a \in ActionType : Cardinality(Pending(a)) <= 1

\* The limits that the ledger read by the checks of a returned call e had
\* exhausted for its type.
DailyOut(e) ==
    /\ e.action \in Limited
    /\ dailyLimit(e.action) > 0
    /\ e.pre.daily[e.action] >= dailyLimit(e.action)

HourlyOut(e) ==
    /\ e.action \in Limited
    /\ hourlyLimit(e.action) > 0
    /\ e.pre.hourly[e.action] >= hourlyLimit(e.action)

BurstOut(e) ==
    /\ config.BurstLimit > 0
    /\ e.pre.last[e.action] # ZeroTime
    /\ e.at - e.pre.last[e.action] < config.BurstWindow
    /\ e.pre.hourly[e.action] >= config.BurstLimit

\* C16: a call made with the daily limit exhausted is denied for the daily
\* limit whatever the hourly and burst state; with the hourly limit exhausted
\* and the daily limit not, it is denied for the hourly limit, also when the
\* burst limit is exhausted too; the burst denial is left for the calls with
\* neither quota exhausted.
C16_DenialPrecedence ==
    \A j \in DOMAIN log :
        /\ DailyOut(log[j]) => log[j].err = ErrDaily
        /\ (HourlyOut(log[j]) /\ ~DailyOut(log[j])) => log[j].err = ErrHourly
        /\ log[j].err = ErrBurst => (~DailyOut(log[j]) /\ ~HourlyOut(log[j]))

\* A call that finds all three limits exhausted and is denied for the daily
\* one, and after the midnight a call that finds the hourly and the burst
\* limit exhausted and the daily one not, denied for the hourly one.
C16_Witness ==
    \E i \in DOMAIN log, j \in DOMAIN log :
        /\ DailyOut(log[i])
        /\ HourlyOut(log[i])
        /\ BurstOut(log[i])
        /\ log[i].err = ErrDaily
        /\ HourlyOut(log[j])
        /\ BurstOut(log[j])
        /\ ~DailyOut(log[j])
        /\ log[j].err = ErrHourly

\* C17: a call made less than required = max(MinDelay, typeDelay) after the
\* previous commit of its type, that took the mutex at once and was not
\* cancelled, returns no later than required * (1 + JitterPercent/100) after
\* that commit.
C17_MaxSpacing ==
    \A j \in DOMAIN log : \A i \in CommitsBefore(j) :
        (/\ \A m \in CommitsBefore(j) : m <= i
         /\ log[j].called - log[i].ret < requiredDelay(log[j].action)
         /\ log[j].at = log[j].called
         /\ log[j].err # ErrCanceled
         /\ ~log[j].ctx1)
        => (log[j].ret - log[i].ret) * 100
               <= requiredDelay(log[j].action) * (100 + config.JitterPercent)

C17_Witness ==
    \E j \in DOMAIN log : \E i \in CommitsBefore(j) :
        /\ \A m \in CommitsBefore(j) : m <= i
        /\ log[j].called - log[i].ret < requiredDelay(log[j].action)
        /\ log[j].at = log[j].called
        /\ log[j].err = Nil
        /\ config.JitterPercent > 0
        /\ log[j].ret - log[i].ret > requiredDelay(log[j].action)

\* C18: a TakeBreak during which the cancellation signal fired, before the
\* computed break duration had elapsed, returned before that duration had
\* elapsed.
C18_BreakCancellable ==
    \A i \in DOMAIN breaks :
        breaks[i].signal # -1
        => breaks[i].ret < breaks[i].start + breaks[i].duration

\* C19: once TakeBreak has returned, the time of the last break that the gate
\* tests is the end of that break, and the break-due test is false until
\* BreakFrequency has elapsed since that end.
C19_BreakRecorded ==
    (gate.pc = "active" /\ breaks # <<>>)
    => /\ gate.lastBreak = breaks[Len(breaks)].ret
       /\ now - breaks[Len(breaks)].ret < gate.cfg.BreakFrequency
            => ~ShouldTakeBreak(gate.lastBreak)

\* C20: when HumanLikeScroll completes, the signed steps of the main loop sum
\* to scrollAmount and the scroll-back pair, if made, is scrollAmount/10 back
\* and the same amount forward, leaving the page scrolled by scrollAmount; and
\* no step of the main loop is larger than what remained before it.
C20_ScrollSum ==
    /\ scroll.pc = "done"
       => /\ scroll.total = scroll.scrollAmount
          /\ scroll.back \in {<<>>, <<-GoDiv(scroll.scrollAmount, 10),
                                      GoDiv(scroll.scrollAmount, 10)>>}
          /\ scroll.pageY = scroll.scrollAmount
    /\ scroll.pc \in {"loop", "back", "done"}
       => /\ scroll.last * scroll.direction <= scroll.before
          /\ scroll.last * scroll.direction >= 0
          /\ scroll.remaining >= 0

C20_Witness ==
    /\ scroll.pc = "done"
    /\ scroll.scrollAmount < -9
    /\ scroll.steps >= 2
    /\ scroll.cfg.Acceleration
    /\ scroll.last = -scroll.before
    /\ Len(scroll.back) = 2
    /\ scroll.total = scroll.scrollAmount


\* The calls of type a committed in the calendar day that starts d days after
\* the first local midnight (d = -1: the day the limiter was constructed in).
CommitsInDay(a, d) ==
    {i \in DOMAIN log :
        /\ log[i].err = Nil
        /\ log[i].action = a
        /\ log[i].ret >= env.firstMidnight + d * Day
        /\ log[i].ret < env.firstMidnight + (d + 1) * Day}

\* C27: for a daily limit L > 0 of an action type, the commits of that type
\* between two consecutive local midnights never exceed L.
C27_DailyCap ==
    \A a \in ActionType : \A d \in {-1, 0} :
        (a \in Limited /\ dailyLimit(a) > 0)
        => Cardinality(CommitsInDay(a, d)) <= dailyLimit(a)

\* The delay configured for an action type (MinDelay for browse) and the
\* required spacing of two actions of the type, as the specification states it.
C23_TypeDelay(a) ==
    CASE a = ActionSearch -> config.SearchDelay
      [] a = ActionConnect -> config.ConnectDelay
      [] a = ActionMessage -> config.MessageDelay
      [] a = ActionBrowse -> config.MinDelay

C23_Required(a) ==
    IF config.MinDelay >= C23_TypeDelay(a) THEN config.MinDelay ELSE C23_TypeDelay(a)

\* The calls of type a that committed, by their index in the log.
CommitsOf(a) == {i \in DOMAIN log : log[i].err = Nil /\ log[i].action = a}

LastCommit(a) == CHOOSE i \in CommitsOf(a) : \A j \in CommitsOf(a) : j <= i

\* C23: at every instant the required wait of an action type is 0 when no
\* action of the type has been committed, and otherwise max(0, required -
\* elapsed), elapsed being the time since the last commit of the type and
\* required = max(MinDelay, delay of the type).
C23_RequiredWait ==
    \A a \in ActionType :
        calculateDelay(a) =
            IF CommitsOf(a) = {} THEN 0
            ELSE LET elapsed == now - log[LastCommit(a)].ret
                     rest == C23_Required(a) - elapsed
                 IN IF rest > 0 THEN rest ELSE 0

\* A type committed before, part of its required delay elapsed and part left.
C23_Witness ==
    \E a \in ActionType :
        /\ CommitsOf(a) # {}
        /\ now > log[LastCommit(a)].ret
        /\ calculateDelay(a) > 0
        /\ calculateDelay(a) < C23_Required(a)
        /\ C23_Required(a) > config.MinDelay

\* C29: a call that returns nil has changed the ledger entry of its own type
\* only: the daily and the hourly count are each one more than when the call
\* took the mutex and the last-action time is the instant of the commit, after
\* the wait; the counts and last-action times of the other types are as they
\* were.
C29_CommitFrame ==
    \A i \in DOMAIN log :
        log[i].err = Nil =>
            LET a == log[i].action
                pre == log[i].pre
                post == log[i].post
            IN /\ post.daily[a] = pre.daily[a] + 1
               /\ post.hourly[a] = pre.hourly[a] + 1
               /\ post.last[a] = log[i].ret
               /\ \A b \in ActionType \ {a} :
                    /\ post.daily[b] = pre.daily[b]
                    /\ post.hourly[b] = pre.hourly[b]
                    /\ post.last[b] = pre.last[b]

\* A call committed after a wait while another type had actions on the ledger.
C29_Witness ==
    \E i \in DOMAIN log :
        /\ log[i].err = Nil
        /\ log[i].wait > 0
        /\ log[i].ret > log[i].at
        /\ \E b \in ActionType \ {log[i].action} : log[i].pre.daily[b] > 0

\* ------------------------------------------------------- status snapshots
\* The runs in which a reporter calls GetStats alongside the callers and the
\* reset goroutines: three paced connects, a midnight 8 s after construction.
StatsSetups == {Setup(Paced, 8 * Second, {ActionConnect}, 3)}

StatsInit == Start(StatsSetups) /\ StealthIdle

StatsNext == Next \/ GetStats

StatsSpec == StatsInit /\ [][StatsNext]_vars

\* C22: a GetStats call leaves the ledger as it found it: the daily counts,
\* the hourly counts, the last-action times and the next daily reset time are
\* the same before and after the call, wherever it falls among the steps of
\* the callers and of the reset goroutines.
C22_StatsReadOnly ==
    [][GetStats => UNCHANGED <<dailyCounts, actionCounts, lastActionTime,
                               dailyResetTime>>]_vars

\* A snapshot taken of a ledger that holds commits, after the first midnight
\* and while a caller waits for the mutex.
C22_Witness ==
    /\ stats # NoStats
    /\ stats.daily[2] > 0
    /\ DOMAIN stats.last # {}
    /\ stats.next_daily_reset > FormatRFC3339(env.firstMidnight)
    /\ \E c \in Callers : pc[c] = "lock"

\* |scrollAmount| of the HumanLikeScroll call.
ScrollDistance ==
    IF scroll.scrollAmount < 0 THEN -scroll.scrollAmount ELSE scroll.scrollAmount

\* C24: the step of a round of the loop is slowed down by 0.7 exactly when
\* acceleration is enabled and more than half of |scrollAmount| remained
\* before it, and sped up by 1.3 exactly when deceleration is enabled and less
\* than a quarter of |scrollAmount| remained, whatever the sign of
\* scrollAmount.
C24_ScrollProfile ==
    scroll.steps > 0 =>
        /\ scroll.factor = 7
             <=> (scroll.cfg.Acceleration /\ 2 * scroll.before > ScrollDistance)
        /\ scroll.factor = 13
             <=> (scroll.cfg.Deceleration /\ 4 * scroll.before < ScrollDistance)

\* C28: every round of the loop of HumanLikeScroll scrolls the page by a
\* strictly positive distance, so that what remains reaches 0.
C28_ScrollProgress ==
    scroll.steps > 0 => scroll.last # 0

\* ------------------------------------------------------------ RandomDelay
\* time.Millisecond in nanoseconds, the unit of a time.Duration.
Millisecond == 1000000

\* TimingConfig.MinDelay and MaxDelay (part_000:45-47) in nanoseconds: the
\* multiples of half a millisecond up to MaxHalfMs of them.
TimingDelays == {h * (Millisecond \div 2) : h \in 0 .. MaxHalfMs}

\* RandomDelay (part_000:167-180) on the draw k / (2 * JitterGrain) of
\* rng.Float64(): delayMs = minMs + draw * (maxMs - minMs) is truncated to whole
\* milliseconds by time.Duration(delayMs).
RandomDelay(k) ==
    LET min == timing.cfg.MinDelay
        max == timing.cfg.MaxDelay
    IN IF min = max THEN min
       ELSE GoDiv(min * (2 * JitterGrain) + k * (max - min),
                  (2 * JitterGrain) * Millisecond) * Millisecond

DelayInit ==
    /\ Start(Unused)
    /\ gate = NoGate /\ breaks = <<>> /\ scroll = NoScroll
    /\ idle = NoHelper /\ path = NoHelper /\ login = NoHelper
    /\ \E min \in TimingDelays, max \in TimingDelays :
          timing = [pc |-> "called", cfg |-> [MinDelay |-> min, MaxDelay |-> max],
                    delay |-> 0]

\* The call returns the delay.
DelayReturn(k) ==
    /\ timing.pc = "called"
    /\ timing' = [timing EXCEPT !.pc = "done", !.delay = RandomDelay(k)]
    /\ UNCHANGED <<now, limiter, gate, breaks, scroll, idle, path, login>>

DelayNext == \E k \in FloatDraws : DelayReturn(k)

DelaySpec == DelayInit /\ [][DelayNext]_vars

\* C25: for a timing configuration with MinDelay <= MaxDelay, RandomDelay
\* returns a duration d with MinDelay <= d <= MaxDelay on every draw, and
\* MinDelay itself when MinDelay = MaxDelay.
C25_DelayInRange ==
    (timing.pc = "done" /\ timing.cfg.MinDelay <= timing.cfg.MaxDelay) =>
        /\ timing.cfg.MinDelay <= timing.delay
        /\ timing.delay <= timing.cfg.MaxDelay
        /\ timing.cfg.MinDelay = timing.cfg.MaxDelay
             => timing.delay = timing.cfg.MinDelay

\* -------------------------------------------------------- AddIdleMovement
\* Coordinates are counted in units of 1 / SubPixel of a pixel, in which the
\* centre of every viewport and every offset drawn are whole numbers.
SubPixel == 4 * JitterGrain

\* MouseMovementConfig.IdleMovements and IdleProbability (part_000:40-41), the
\* probability in units of 1 / (2 * JitterGrain): 0, 0.5 and 1.
IdleConfigs ==
    {[IdleMovements |-> e, IdleProbability |-> p] :
        e \in BOOLEAN, p \in {0, JitterGrain, 2 * JitterGrain}}

\* window.innerWidth and window.innerHeight, in pixels.
Viewports ==
    {[width |-> 0, height |-> 0], [width |-> 40, height |-> 120],
     [width |-> 200, height |-> 101]}

\* rng.Float64()*100 - 50 on the draw k (part_000:300-301).
idleOffset(k) == 2 * (100 * k - 100 * JitterGrain)

\* Faulty variant of clampToViewport: the target is not kept in the viewport.
clampNot(size, target) == target

\* math.Max(0, math.Min(size, target)) (part_000:309-310), size in pixels.
clampToViewport(size, target) ==
    LET least == IF size * SubPixel < target THEN size * SubPixel ELSE target
    IN IF least < 0 THEN 0 ELSE least

IdleInit ==
    /\ Start(Unused)
    /\ gate = NoGate /\ breaks = <<>> /\ scroll = NoScroll
    /\ timing = NoHelper /\ path = NoHelper /\ login = NoHelper
    /\ \E c \in IdleConfigs, v \in Viewports :
          idle = [pc |-> "called", cfg |-> c, viewport |-> v, draw |-> 0,
                  moveX |-> 0, moveY |-> 0, fromX |-> 0, fromY |-> 0,
                  targetX |-> 0, targetY |-> 0]

\* The guard of AddIdleMovement on the draw k of rng.Float64()
\* (part_000:287-289): nil is returned and nothing moves, or the viewport is
\* asked for.
IdleGuard(k) ==
    /\ idle.pc = "called"
    /\ idle' = [idle EXCEPT
                   !.draw = k,
                   !.pc = IF ~idle.cfg.IdleMovements \/ k > idle.cfg.IdleProbability
                          THEN "none" ELSE "eval"]
    /\ UNCHANGED <<now, limiter, gate, breaks, scroll, timing, path, login>>

\* page.Eval fails and the error is returned (part_000:292-295).
IdleEvalFails ==
    /\ idle.pc = "eval"
    /\ idle' = [idle EXCEPT !.pc = "failed"]
    /\ UNCHANGED <<now, limiter, gate, breaks, scroll, timing, path, login>>

\* The target is computed on the draws kx and ky and HumanLikeMouseMove is
\* called from the centre of the viewport to it (part_000:296-312).
IdleMove(kx, ky) ==
    /\ idle.pc = "eval"
    /\ LET currentX == (idle.viewport.width * SubPixel) \div 2
           currentY == (idle.viewport.height * SubPixel) \div 2
       IN idle' = [idle EXCEPT
                      !.pc = "moved",
                      !.moveX = idleOffset(kx),
                      !.moveY = idleOffset(ky),
                      !.fromX = currentX,
                      !.fromY = currentY,
                      !.targetX = clampToViewport(idle.viewport.width,
                                                  currentX + idleOffset(kx)),
                      !.targetY = clampToViewport(idle.viewport.height,
                                                  currentY + idleOffset(ky))]
    /\ UNCHANGED <<now, limiter, gate, breaks, scroll, timing, path, login>>

IdleNext ==
    \/ \E k \in FloatDraws : IdleGuard(k)
    \/ IdleEvalFails
    \/ \E kx \in FloatDraws, ky \in FloatDraws : IdleMove(kx, ky)

IdleSpec == IdleInit /\ [][IdleNext]_vars

\* The coordinate c + m kept within 0 .. limit, as the claim states it.
C26_Within(limit, c, m) ==
    IF c + m < 0 THEN 0 ELSE IF c + m > limit THEN limit ELSE c + m

\* C26: AddIdleMovement moves nothing when idle movements are disabled or the
\* draw exceeds IdleProbability; when it moves, the target is the centre of
\* the viewport plus an offset in [-50, +50] on each axis, kept within
\* 0 <= x <= width and 0 <= y <= height.
C26_IdleTarget ==
    LET w == idle.viewport.width * SubPixel
        h == idle.viewport.height * SubPixel
        off == ~idle.cfg.IdleMovements \/ idle.draw > idle.cfg.IdleProbability
    IN /\ idle.pc = "none" => off
       /\ idle.pc \in {"eval", "failed", "moved"} => ~off
       /\ idle.pc = "moved" =>
            /\ 2 * idle.fromX = w /\ 2 * idle.fromY = h
            /\ idle.moveX >= -50 * SubPixel /\ idle.moveX <= 50 * SubPixel
            /\ idle.moveY >= -50 * SubPixel /\ idle.moveY <= 50 * SubPixel
            /\ idle.targetX = C26_Within(w, idle.fromX, idle.moveX)
            /\ idle.targetY = C26_Within(h, idle.fromY, idle.moveY)
            /\ idle.targetX >= 0 /\ idle.targetX <= w
            /\ idle.targetY >= 0 /\ idle.targetY <= h

\* A move whose target was brought back to the left edge of the viewport and
\* whose other coordinate was left as drawn.
C26_Witness ==
    /\ idle.pc = "moved"
    /\ idle.viewport.width > 0
    /\ idle.fromX + idle.moveX < 0
    /\ idle.targetX = 0
    /\ idle.targetY = idle.fromY + idle.moveY
    /\ idle.moveY # 0

\* ------------------------------------------------------------ mouse paths
\* float64 arithmetic: binary floating point with a significand of Precision
\* bits, each operation rounded to the nearest value, ties to the even
\* significand.  The exponent is not bounded: no number of a path overflows or
\* is subnormal.  Zero has no sign.  The compiler is taken not to fuse a
\* multiply with an add.
Precision == 53

RECURSIVE Pow2(_)
Pow2(e) == IF e = 0 THEN 1 ELSE 2 * Pow2(e - 1)

\* A significand does not fit an integer of the checker: a natural number is
\* the sequence of its digits in base Radix, the least significant first, the
\* last one not zero.
DigitBits == 10
Radix == Pow2(DigitBits)

RECURSIVE NatTrim(_)
NatTrim(a) ==
    IF a = <<>> THEN a
    ELSE IF a[Len(a)] = 0 THEN NatTrim(SubSeq(a, 1, Len(a) - 1))
    ELSE a

RECURSIVE NatOf(_)
NatOf(n) == IF n = 0 THEN <<>> ELSE <<n % Radix>> \o NatOf(n \div Radix)

RECURSIVE NatAddCarry(_, _, _)
NatAddCarry(a, b, c) ==
    IF a = <<>> /\ b = <<>> THEN NatOf(c)
    ELSE LET x == (IF a = <<>> THEN 0 ELSE Head(a))
                    + (IF b = <<>> THEN 0 ELSE Head(b)) + c
         IN <<x % Radix>> \o NatAddCarry(IF a = <<>> THEN a ELSE Tail(a),
                                          IF b = <<>> THEN b ELSE Tail(b),
                                          x \div Radix)

NatAdd(a, b) == NatAddCarry(a, b, 0)

RECURSIVE NatSubBorrow(_, _, _)
NatSubBorrow(a, b, c) ==
    IF a = <<>> THEN a
    ELSE LET x == Head(a) - (IF b = <<>> THEN 0 ELSE Head(b)) - c
         IN <<IF x < 0 THEN x + Radix ELSE x>>
            \o NatSubBorrow(Tail(a), IF b = <<>> THEN b ELSE Tail(b),
                            IF x < 0 THEN 1 ELSE 0)

\* a - b, for a >= b
NatSub(a, b) == NatTrim(NatSubBorrow(a, b, 0))

RECURSIVE NatCmpFrom(_, _, _)
NatCmpFrom(a, b, i) ==
    IF i = 0 THEN 0
    ELSE IF a[i] < b[i] THEN -1
    ELSE IF a[i] > b[i] THEN 1
    ELSE NatCmpFrom(a, b, i - 1)

\* -1, 0 or 1 as a is less than, equal to or greater than b
NatCmp(a, b) ==
    IF Len(a) < Len(b) THEN -1
    ELSE IF Len(a) > Len(b) THEN 1
    ELSE NatCmpFrom(a, b, Len(a))

RECURSIVE NatScaleCarry(_, _, _)
NatScaleCarry(a, k, c) ==
    IF a = <<>> THEN NatOf(c)
    ELSE LET x == Head(a) * k + c
         IN <<x % Radix>> \o NatScaleCarry(Tail(a), k, x \div Radix)

\* a * k, for a small k
NatScale(a, k) == IF k = 0 THEN <<>> ELSE NatScaleCarry(a, k, 0)

RECURSIVE NatMul(_, _)
NatMul(a, b) ==
    IF a = <<>> \/ b = <<>> THEN <<>>
    ELSE LET rest == NatMul(a, Tail(b))
         IN NatAdd(NatScale(a, Head(b)), IF rest = <<>> THEN rest ELSE <<0>> \o rest)

RECURSIVE NatQuot(_, _, _)
NatQuot(a, d, r) ==
    IF a = <<>> THEN a
    ELSE LET x == r * Radix + a[Len(a)]
         IN NatQuot(SubSeq(a, 1, Len(a) - 1), d, x % d) \o <<x \div d>>

RECURSIVE NatRem(_, _, _)
NatRem(a, d, r) ==
    IF a = <<>> THEN r
    ELSE NatRem(SubSeq(a, 1, Len(a) - 1), d, (r * Radix + a[Len(a)]) % d)

\* the quotient and the remainder of a by a small d
NatDiv(a, d) == NatTrim(NatQuot(a, d, 0))
NatMod(a, d) == NatRem(a, d, 0)

\* a * 2^s and a \div 2^s
NatShiftLeft(a, s) ==
    IF a = <<>> THEN a
    ELSE [i \in 1 .. (s \div DigitBits) |-> 0] \o NatScale(a, Pow2(s % DigitBits))
NatShiftRight(a, s) ==
    NatDiv(SubSeq(a, (s \div DigitBits) + 1, Len(a)), Pow2(s % DigitBits))

RECURSIVE BitsOf(_)
BitsOf(n) == IF n = 0 THEN 0 ELSE 1 + BitsOf(n \div 2)

\* the number of binary digits of a
NatBits(a) == IF a = <<>> THEN 0 ELSE DigitBits * (Len(a) - 1) + BitsOf(a[Len(a)])

\* A float64 is m * 2^e, negated if neg, with m odd; zero is Zero.
Zero == [neg |-> FALSE, m |-> <<>>, e |-> 0]

RECURSIVE Normal(_, _, _)
Normal(neg, m, e) ==
    IF m = <<>> THEN Zero
    ELSE IF Head(m) = 0 THEN Normal(neg, Tail(m), e + DigitBits)
    ELSE IF Head(m) % 2 = 0 THEN Normal(neg, NatDiv(m, 2), e + 1)
    ELSE [neg |-> neg, m |-> m, e |-> e]

\* The float64 nearest to m * 2^e: the binary digits of m beyond Precision are
\* dropped, and the rest is rounded up when they are more than half a unit of
\* the last digit kept, or half a unit and that digit is odd.
Round(neg, m, e) ==
    LET drop == NatBits(m) - Precision
        kept == NatShiftRight(m, drop)
        rest == NatSub(m, NatShiftLeft(kept, drop))
        half == NatShiftLeft(<<1>>, drop - 1)
        up == \/ NatCmp(rest, half) = 1
              \/ NatCmp(rest, half) = 0 /\ Head(kept) % 2 = 1
    IN IF drop <= 0 THEN Normal(neg, m, e)
       ELSE Normal(neg, IF up THEN NatAdd(kept, <<1>>) ELSE kept, e + drop)

\* float64(n) of a whole number n >= 0
Float(n) == Normal(FALSE, NatOf(n), 0)

\* The operations of float64 on two numbers.
fAdd(a, b) ==
    LET e == IF a.e < b.e THEN a.e ELSE b.e
        x == NatShiftLeft(a.m, a.e - e)
        y == NatShiftLeft(b.m, b.e - e)
    IN IF a = Zero THEN b
       ELSE IF b = Zero THEN a
       ELSE IF a.neg = b.neg THEN Round(a.neg, NatAdd(x, y), e)
       ELSE IF NatCmp(x, y) >= 0 THEN Round(a.neg, NatSub(x, y), e)
       ELSE Round(b.neg, NatSub(y, x), e)
fSub(a, b) == fAdd(a, IF b = Zero THEN b ELSE [b EXCEPT !.neg = ~@])
fMul(a, b) == Round(a.neg # b.neg, NatMul(a.m, b.m), a.e + b.e)
\* The quotient float64(n) / float64(d) of two whole numbers, n >= 0 and
\* d > 0, and a decimal literal n / d: the quotient is computed to 2 *
\* Precision binary digits after the point and one more digit tells whether
\* anything is left.
fDiv(n, d) ==
    LET scaled == NatShiftLeft(NatOf(n), 2 * Precision)
        left == IF NatMod(scaled, d) = 0 THEN 0 ELSE 1
    IN Round(FALSE, NatAdd(NatScale(NatDiv(scaled, d), 2), NatOf(left)),
             -(2 * Precision + 1))
\* math.Pow(x, 2) and math.Pow(x, 3), which multiply step by step.
fSquare(x) == fMul(x, x)
fCube(x) == fMul(x, fMul(x, x))

\* steps of generateBezierPath (part_000:325) and of generateLinearPath
\* (part_000:338).
BezierSteps == 50
LinearSteps == 20

\* The coordinates the paths are asked for: 0.2 and 0.9.
PathCoordinates == {fDiv(2, 10), fDiv(9, 10)}

\* One coordinate of bezierPoint (part_000:351-352) at t.
bezierCoordinate(p1, cp1, cp2, p2, t) ==
    LET one == Float(1)
        three == Float(3)
        b0 == fMul(fCube(fSub(one, t)), p1)
        b1 == fMul(fMul(fMul(three, fSquare(fSub(one, t))), t), cp1)
        b2 == fMul(fMul(fMul(three, fSub(one, t)), fSquare(t)), cp2)
        b3 == fMul(fCube(t), p2)
    IN fAdd(fAdd(fAdd(b0, b1), b2), b3)

\* bezierPoint (part_000:350-354) on the path in progress.
bezierPoint(t) ==
    [X |-> bezierCoordinate(path.fromX, path.cp1X, path.cp2X, path.toX, t),
     Y |-> bezierCoordinate(path.fromY, path.cp1Y, path.cp2Y, path.toY, t)]

\* The point of generateLinearPath at t (part_000:342-344).
linearPoint(t) ==
    [X |-> fAdd(path.fromX, fMul(fSub(path.toX, path.fromX), t)),
     Y |-> fAdd(path.fromY, fMul(fSub(path.toY, path.fromY), t))]

PathSteps == IF path.kind = "bezier" THEN BezierSteps ELSE LinearSteps

\* generateBezierPath or generateLinearPath is called; the linear path has no
\* control points and starts its loop at once.
PathInit ==
    /\ Start(Unused)
    /\ gate = NoGate /\ breaks = <<>> /\ scroll = NoScroll
    /\ timing = NoHelper /\ idle = NoHelper /\ login = NoHelper
    /\ \E kind \in {"bezier", "linear"},
          fx \in PathCoordinates, fy \in PathCoordinates,
          tx \in PathCoordinates, ty \in PathCoordinates :
          path = [pc |-> IF kind = "bezier" THEN "called" ELSE "loop",
                  kind |-> kind, fromX |-> fx, fromY |-> fy,
                  toX |-> tx, toY |-> ty,
                  cp1X |-> Zero, cp1Y |-> Zero, cp2X |-> Zero, cp2Y |-> Zero,
                  i |-> 0, points |-> <<>>]

\* The control points of generateBezierPath on the draws k1 and k2 of
\* rng.Float64() (part_000:319-322).
BezierControl(k1, k2) ==
    /\ path.pc = "called"
    /\ LET dx == fSub(path.toX, path.fromX)
           dy == fSub(path.toY, path.fromY)
       IN path' = [path EXCEPT
                      !.pc = "loop",
                      !.cp1X = fAdd(path.fromX, fMul(dx, fDiv(25, 100))),
                      !.cp1Y = fSub(fAdd(fAdd(path.fromY, fMul(dy, fDiv(1, 10))),
                                         fMul(fDiv(k1, 2 * JitterGrain), Float(50))),
                                    Float(25)),
                      !.cp2X = fAdd(path.fromX, fMul(dx, fDiv(75, 100))),
                      !.cp2Y = fSub(fAdd(fAdd(path.fromY, fMul(dy, fDiv(9, 10))),
                                         fMul(fDiv(k2, 2 * JitterGrain), Float(50))),
                                    Float(25))]
    /\ UNCHANGED <<now, limiter, gate, breaks, scroll, timing, idle, login>>

\* One round of the loop of either function (part_000:327-331, 340-345): the
\* point at t = i / steps is appended to the path.
PathPoint ==
    /\ path.pc = "loop"
    /\ path.i <= PathSteps
    /\ LET t == fDiv(path.i, PathSteps)
       IN path' = [path EXCEPT
                      !.i = @ + 1,
                      !.points = Append(@, IF path.kind = "bezier"
                                           THEN bezierPoint(t)
                                           ELSE linearPoint(t))]
    /\ UNCHANGED <<now, limiter, gate, breaks, scroll, timing, idle, login>>

\* The loop ends and the path is returned (part_000:333, 347).
PathReturn ==
    /\ path.pc = "loop"
    /\ path.i > PathSteps
    /\ path' = [path EXCEPT !.pc = "done"]
    /\ UNCHANGED <<now, limiter, gate, breaks, scroll, timing, idle, login>>

PathNext ==
    \/ \E k1 \in FloatDraws, k2 \in FloatDraws : BezierControl(k1, k2)
    \/ PathPoint
    \/ PathReturn

PathSpec == PathInit /\ [][PathNext]_vars

\* C21: generateBezierPath returns 51 points and generateLinearPath 21, and
\* in both the first point is (fromX, fromY) and the last point is (toX, toY)
\* exactly, on every draw of the control points.
C21_PathEndpoints ==
    path.pc = "done" =>
        /\ Len(path.points) = (IF path.kind = "bezier" THEN 51 ELSE 21)
        /\ path.points[1] = [X |-> path.fromX, Y |-> path.fromY]
        /\ path.points[Len(path.points)] = [X |-> path.toX, Y |-> path.toY]

\* ------------------------------------------------------------------ Login
\* strings.Contains(s, substr)
Contains(s, substr) ==
    \E i \in 1 .. (Len(s) - Len(substr) + 1) :
        SubSeq(s, i, i + Len(substr) - 1) = substr

\* The pages the browser can be on when Login looks at its URL; "" is what
\* page.Info() reports of a page that has none.
URLs ==
    {"", "https://www.linkedin.com/login",
     "https://www.linkedin.com/login/two-factor",
     "https://www.linkedin.com/login/captcha",
     "https://www.linkedin.com/feed/",
     "https://www.linkedin.com/help",
     "https://www.linkedin.com/checkpoint/challenge/verify",
     "https://www.linkedin.com/uas/challenge"}

\* The timeout of the context of Login (auth.go:220), the wait for the manual
\* verification (auth.go:352) and the settling sleep (auth.go:334), in seconds.
LoginTimeout == 300
VerificationWait == 300
SettleSleep == 2
\* The sleep after the navigation of handleCaptchaManually (auth.go:788) and
\* its wait for the CAPTCHA to be solved (auth.go:808), in seconds.
PageLoadSleep == 3
CaptchaWait == 60

\* The nil *LoginResult that Login returns with an error.
NilResult == [isNil |-> TRUE]

\* &LoginResult{} (auth.go:31-37, 223) and the ways Login fills it in.
NoResult == [Success |-> FALSE, ErrorMessage |-> "", Requires2FA |-> FALSE,
             RequiresCaptcha |-> FALSE]
Succeeded == [NoResult EXCEPT !.Success = TRUE]
Failed(message) == [NoResult EXCEPT !.ErrorMessage = message]

\* Login returns result and err.
LoginReturns(result, err) ==
    login' = [login EXCEPT !.pc = "returned", !.result = result, !.err = err]

\* err == nil && urlInfo.URL != "" of a page.Info() call that succeeds or not.
HasURL(infoOk) == infoOk /\ login.url # ""

\* checkPageLoginStatus (auth.go:619-647) on the page the browser is on.
isLoggedIn(infoOk) ==
    /\ HasURL(infoOk)
    /\ ~Contains(login.url, "linkedin.com/login")
    /\ \/ Contains(login.url, "linkedin.com/feed")
       \/ Contains(login.url, "linkedin.com/in/")
       \/ Contains(login.url, "linkedin.com/mynetwork")

\* requires2FA (auth.go:735-759); pin tells whether input[name='pin'] is found.
requires2FA(pin, infoOk) ==
    \/ pin
    \/ /\ HasURL(infoOk)
       /\ Contains(login.url, "two-factor") \/ Contains(login.url, "challenge")

\* requiresCaptcha (auth.go:822-840)
requiresCaptcha(infoOk) ==
    /\ HasURL(infoOk)
    /\ Contains(login.url, "captcha") \/ Contains(login.url, "challenge")

LoginInit ==
    /\ Start(Unused)
    /\ gate = NoGate /\ breaks = <<>> /\ scroll = NoScroll
    /\ timing = NoHelper /\ idle = NoHelper /\ path = NoHelper
    /\ login = [pc |-> "called", url |-> "", elapsed |-> 0,
                result |-> NilResult, err |-> Nil]

\* The page is created, sent to the login page and loaded (auth.go:226-275);
\* the browser lands on u, or one of the steps fails and Login returns the
\* error.
LoginOpen(u, ok) ==
    /\ login.pc = "called"
    /\ IF ok
       THEN login' = [login EXCEPT !.pc = "loaded", !.url = u]
       ELSE LoginReturns(NilResult, "failed to open the login page")
    /\ UNCHANGED <<now, limiter, gate, breaks, scroll, timing, idle, path>>

\* The check for a session that is logged in already (auth.go:283-294).
LoginAlready(infoOk) ==
    /\ login.pc = "loaded"
    /\ IF HasURL(infoOk) /\ ~Contains(login.url, "linkedin.com/login")
       THEN LoginReturns(Succeeded, Nil)
       ELSE login' = [login EXCEPT !.pc = "fill"]
    /\ UNCHANGED <<now, limiter, gate, breaks, scroll, timing, idle, path>>

\* The credentials are filled in and submitted and the navigation is waited
\* for, wait seconds (auth.go:300-330): the browser lands on u, or a step
\* fails or the context is done and Login returns the error.
LoginSubmit(u, ok, wait) ==
    /\ login.pc = "fill"
    /\ IF ok
       THEN login' = [login EXCEPT !.pc = "submitted", !.url = u,
                                   !.elapsed = @ + wait]
       ELSE LoginReturns(NilResult, "failed to submit the login")
    /\ UNCHANGED <<now, limiter, gate, breaks, scroll, timing, idle, path>>

\* The URL after the login is looked at (auth.go:334-344, 368-387): a
\* checkpoint or challenge page starts the wait for the manual verification,
\* another page that is not the login page is a success.
LoginStatus(infoOk) ==
    /\ login.pc = "submitted"
    /\ IF HasURL(infoOk) /\ ~Contains(login.url, "linkedin.com/login")
       THEN IF Contains(login.url, "checkpoint") \/ Contains(login.url, "challenge")
            THEN login' = [login EXCEPT !.pc = "verification",
                                        !.elapsed = @ + SettleSleep]
            ELSE LoginReturns(Succeeded, Nil)
       ELSE login' = [login EXCEPT !.pc = "onLogin", !.elapsed = @ + SettleSleep]
    /\ UNCHANGED <<now, limiter, gate, breaks, scroll, timing, idle, path>>

\* The wait for the manual verification (auth.go:349-365, 368-385), during
\* which the browser goes to u.  The select ends with the timer when the
\* context of Login has more than VerificationWait left, and the URL is then
\* looked at again; otherwise it ends with ctx.Done() and the error is
\* returned.  A page.Info() that fails after the timer leaves urlInfo nil for
\* auth.go:369.
LoginVerification(u, infoOk) ==
    /\ login.pc = "verification"
    /\ IF login.elapsed + VerificationWait < LoginTimeout
       THEN /\ infoOk
            /\ IF u # "" /\ Contains(u, "checkpoint")
               THEN login' = [login EXCEPT
                                 !.pc = "returned", !.url = u,
                                 !.result = Failed("LinkedIn checkpoint verification required")]
               ELSE login' = [login EXCEPT !.pc = "returned", !.url = u,
                                           !.result = Succeeded]
       ELSE login' = [login EXCEPT
                         !.pc = "returned", !.url = u,
                         !.err = "timeout during checkpoint verification"]
    /\ UNCHANGED <<now, limiter, gate, breaks, scroll, timing, idle, path>>

\* Still on the login page: the checks for a second factor and for a CAPTCHA
\* (auth.go:391-403), with the context done or not.
LoginChallenges(ctxIsDone, pin, info2FA, infoCaptcha) ==
    /\ login.pc = "onLogin"
    /\ IF ctxIsDone
       THEN LoginReturns(NilResult, "login timeout during challenge check")
       ELSE IF requires2FA(pin, info2FA)
       THEN LoginReturns(
                [NoResult EXCEPT
                    !.Requires2FA = TRUE,
                    !.ErrorMessage = "2FA authentication required. Please handle manually."],
                Nil)
       ELSE IF requiresCaptcha(infoCaptcha)
       THEN login' = [login EXCEPT !.pc = "captcha"]
       ELSE login' = [login EXCEPT !.pc = "errors"]
    /\ UNCHANGED <<now, limiter, gate, breaks, scroll, timing, idle, path>>

\* handleCaptchaManually (auth.go:761-820) and the check after it
\* (auth.go:404-420).  The browser is reopened, sent to the login page and
\* left to the user for CaptchaWait; isLoggedIn (auth.go:814) then finds it on
\* u, and the handling succeeds when that is a page of a logged-in session.
\* After the settling sleep page.Info() (auth.go:413) finds the browser on v:
\* a page that is not the login page is a success, any other outcome leads to
\* the check for an error message.
LoginCaptcha(u, ok, v, infoOk) ==
    /\ login.pc = "captcha"
    /\ LET solved == /\ ok
                     /\ u # ""
                     /\ ~Contains(u, "linkedin.com/login")
                     /\ \/ Contains(u, "linkedin.com/feed")
                        \/ Contains(u, "linkedin.com/in/")
                        \/ Contains(u, "linkedin.com/mynetwork")
           after == [login EXCEPT
                        !.url = v,
                        !.elapsed = @ + PageLoadSleep + CaptchaWait
                                      + SettleSleep + SettleSleep]
       IN IF ~solved
          THEN login' = [login EXCEPT
                            !.pc = "returned", !.url = u,
                            !.result = [NoResult EXCEPT
                                           !.RequiresCaptcha = TRUE,
                                           !.ErrorMessage = "CAPTCHA challenge detected"]]
          ELSE IF infoOk /\ v # "" /\ ~Contains(v, "linkedin.com/login")
          THEN login' = [after EXCEPT !.pc = "returned", !.result = Succeeded]
          ELSE login' = [after EXCEPT !.pc = "errors"]
    /\ UNCHANGED <<now, limiter, gate, breaks, scroll, timing, idle, path>>

\* The check for an error message on the page (auth.go:425-433).
LoginErrors(ctxIsDone, errorMsg) ==
    /\ login.pc = "errors"
    /\ IF ctxIsDone
       THEN LoginReturns(NilResult, "login timeout during error check")
       ELSE IF errorMsg # ""
       THEN LoginReturns(Failed(errorMsg), Nil)
       ELSE login' = [login EXCEPT !.pc = "verify"]
    /\ UNCHANGED <<now, limiter, gate, breaks, scroll, timing, idle, path>>

\* The last check and the success (auth.go:437-455).
LoginVerify(ctxIsDone, infoOk) ==
    /\ login.pc = "verify"
    /\ IF ctxIsDone
       THEN LoginReturns(NilResult, "login timeout during verification")
       ELSE IF ~isLoggedIn(infoOk)
       THEN LoginReturns(Failed("Login failed - unable to verify authentication"), Nil)
       ELSE LoginReturns(Succeeded, Nil)
    /\ UNCHANGED <<now, limiter, gate, breaks, scroll, timing, idle, path>>

LoginNext ==
    \/ \E u \in URLs, ok \in BOOLEAN : LoginOpen(u, ok)
    \/ \E infoOk \in BOOLEAN : LoginAlready(infoOk)
    \/ \E u \in URLs, ok \in BOOLEAN, wait \in {0, 15} : LoginSubmit(u, ok, wait)
    \/ \E infoOk \in BOOLEAN : LoginStatus(infoOk)
    \/ \E u \in URLs, infoOk \in BOOLEAN : LoginVerification(u, infoOk)
    \/ \E ctxIsDone \in BOOLEAN, pin \in BOOLEAN, info2FA \in BOOLEAN,
          infoCaptcha \in BOOLEAN :
          LoginChallenges(ctxIsDone, pin, info2FA, infoCaptcha)
    \/ \E u \in URLs, ok \in BOOLEAN, v \in URLs, infoOk \in BOOLEAN :
          LoginCaptcha(u, ok, v, infoOk)
    \/ \E ctxIsDone \in BOOLEAN, errorMsg \in {"", "Wrong email or password"} :
          LoginErrors(ctxIsDone, errorMsg)
    \/ \E ctxIsDone \in BOOLEAN, infoOk \in BOOLEAN : LoginVerify(ctxIsDone, infoOk)

LoginSpec == LoginInit /\ [][LoginNext]_vars

\* The browser is on a checkpoint or challenge page (the test of
\* auth.go:343-344).
OnCheckpoint == Contains(login.url, "checkpoint") \/ Contains(login.url, "challenge")

\* C30: Login never returns a result with Success = true while the browser is
\* on a LinkedIn checkpoint or challenge page.
C30_NoSuccessOnCheckpoint ==
    (login.pc = "returned" /\ login.result # NilResult /\ login.result.Success)
        => ~OnCheckpoint

============================================================================
